---- MODULE Spec2Model ----
(***************************************************************************)
(* Model of the go-loadbalancer health state machine (src/server.go):      *)
(* Server.SetOnline and Server.SetOffline stepped statement by statement   *)
(* under the LoadBalancer mutex, called from several threads, with a       *)
(* discrete clock standing for time.Now().  LoadBalancer.Add, Next and     *)
(* raiseEvent are not among the source files; they are modelled from the   *)
(* specification (sections 4.2 and 4.3).                                   *)
(*                                                                         *)
(* Spec        the health state machine with Add, Next and the clock       *)
(* SpecWRR     Next called repeatedly on always-Up weighted primaries      *)
(* SpecHandler the health state machine with an event handler that calls   *)
(*             SetOnline / SetOffline itself, under fair scheduling        *)
(* SpecHttp    HttpClient.AddSource, SourcesCount and SourceState          *)
(*             (src/unnamed/part_000)                                      *)
(***************************************************************************)
EXTENDS Integers, Sequences, FiniteSets, TLC

\* ------------------------------------------------------------- bounds
NumThreads == 2
MaxServers == 2
MaxCalls == 4
MaxTime == 3
MaxWeight == 3
MaxPicks == 9
MaxDepth == 2
MaxSources == 3

\* ---------------------------------------------------------- constants
ServerUpEvent == 1
ServerDownEvent == 2
\* the zero value of time.Time, earlier than every reading of the clock
ZeroTime == 0

Threads == 1..NumThreads

\* ServerOptions values handed to Add by the health specification.
HealthOptions ==
    { [Weight |-> 1, MaxFails |-> 0, FailTimeout |-> 1, IsBackup |-> FALSE],
      [Weight |-> 1, MaxFails |-> 1, FailTimeout |-> 2, IsBackup |-> FALSE],
      [Weight |-> 1, MaxFails |-> 2, FailTimeout |-> 1, IsBackup |-> FALSE],
      [Weight |-> 1, MaxFails |-> 3, FailTimeout |-> 2, IsBackup |-> FALSE],
      [Weight |-> 1, MaxFails |-> 2, FailTimeout |-> 1, IsBackup |-> TRUE] }

VARIABLES
    primaryGroup,        \* ServerGroup of the primary servers
    backupGroup,         \* ServerGroup of the backup servers
    primaryOnlineCount,  \* LoadBalancer.primaryOnlineCount
    mtx,                 \* LoadBalancer.mtx: the set of threads holding it
    clock,               \* what time.Now() returns
    pc,                  \* each thread's position in SetOnline / SetOffline
    srv,                 \* each thread's receiver (srv *Server)
    now,                 \* SetOffline's local now
    notifyUp,            \* SetOnline's local notifyUp
    notifyDown,          \* SetOffline's local notifyDown
    events,              \* the events the handler has received, in order
    calls,               \* number of calls started (bounded by MaxCalls)
    pre,                 \* history: the state a call found on entering its critical section
    flips,               \* history: the isDown transitions, in order
    hist,                \* history per primary: failure times of the SetOffline calls
    lastCall,            \* history: the call started last, and what Next saw and returned
    lin,                 \* history: the health state of the same calls run one at a time
    stack,               \* each thread's calls suspended in the event handler
    returned,            \* history: the servers the Next calls returned, in order
    sources,             \* HttpClient.sources
    added                \* history: how many AddSource calls succeeded and failed

vars == << primaryGroup, backupGroup, primaryOnlineCount, mtx, clock, pc, srv,
           now, notifyUp, notifyDown, events, calls, pre, flips, hist, lastCall,
           lin, stack, returned, sources, added >>

\* ------------------------------------------------------------ helpers
NoServer == [backup |-> FALSE, idx |-> 0]
NoPre == [at |-> 0, isDown |-> FALSE, failCounter |-> 0, failTimestamp |-> 0, count |-> 0]
NoCall == [op |-> "none", srv |-> NoServer, err |-> FALSE, at |-> 0,
           allDown |-> FALSE, hasBackup |-> FALSE, retDown |-> FALSE, early |-> FALSE]
Called(op, r) == [NoCall EXCEPT !.op = op, !.srv = r]

\* type Server struct: the fields SetOnline and SetOffline read and write
NewServer(o) ==
    [opts |-> o, isDown |-> FALSE, failCounter |-> 0, failTimestamp |-> ZeroTime]

\* type ServerGroup struct
NewGroup == [srvList |-> << >>, currServerIdx |-> 0, currServerWeight |-> 0]

NewHist == [downAt |-> << >>, lastOffAt |-> << >>, spaced |-> TRUE, run |-> << >>]

Primaries == 1..Len(primaryGroup.srvList)
Backups == 1..Len(backupGroup.srvList)
P(i) == primaryGroup.srvList[i]

Refs == { [backup |-> FALSE, idx |-> i] : i \in Primaries }
          \cup { [backup |-> TRUE, idx |-> i] : i \in Backups }

Deref(r) == IF r.backup THEN backupGroup.srvList[r.idx] ELSE primaryGroup.srvList[r.idx]

\* After taken as "not before"
After_NotBefore(t, u) == t >= u

\* time.Time.Add and time.Time.After
TimeAdd(t, d) == t + d
After(t, u) == t > u

Init ==
    /\ primaryGroup = NewGroup
    /\ backupGroup = NewGroup
    /\ primaryOnlineCount = 0
    /\ mtx = {}
    /\ clock = 1
    /\ pc = [t \in Threads |-> "idle"]
    /\ srv = [t \in Threads |-> NoServer]
    /\ now = [t \in Threads |-> ZeroTime]
    /\ notifyUp = [t \in Threads |-> FALSE]
    /\ notifyDown = [t \in Threads |-> FALSE]
    /\ events = << >>
    /\ calls = 0
    /\ pre = [t \in Threads |-> NoPre]
    /\ flips = << >>
    /\ hist = << >>
    /\ lastCall = NoCall
    /\ lin = [primary |-> << >>, backup |-> << >>, count |-> 0]
    /\ stack = [t \in Threads |-> << >>]
    /\ returned = << >>
    /\ sources = << >>
    /\ added = [ok |-> 0, rejected |-> 0, refused |-> 0]

H(r) == hist[r]

\* the server r with its record replaced by s2 (a write through srv *Server)
UpdateServer(r, s2) ==
    IF r.backup
    THEN /\ backupGroup' = [backupGroup EXCEPT !.srvList[r.idx] = s2]
         /\ UNCHANGED primaryGroup
    ELSE /\ primaryGroup' = [primaryGroup EXCEPT !.srvList[r.idx] = s2]
         /\ UNCHANGED backupGroup

Goto(t, label) == pc' = [pc EXCEPT ![t] = label]

\* the call returns: the thread's locals go out of scope, and the call that
\* waited for it in the event handler, if any, goes on
Return(t) ==
    IF stack[t] = << >>
    THEN /\ pc' = [pc EXCEPT ![t] = "idle"]
         /\ srv' = [srv EXCEPT ![t] = NoServer]
         /\ now' = [now EXCEPT ![t] = ZeroTime]
         /\ notifyUp' = [notifyUp EXCEPT ![t] = FALSE]
         /\ notifyDown' = [notifyDown EXCEPT ![t] = FALSE]
         /\ pre' = [pre EXCEPT ![t] = NoPre]
         /\ UNCHANGED stack
    ELSE /\ pc' = [pc EXCEPT ![t] = Head(stack[t]).pc]
         /\ srv' = [srv EXCEPT ![t] = Head(stack[t]).srv]
         /\ now' = [now EXCEPT ![t] = Head(stack[t]).now]
         /\ notifyUp' = [notifyUp EXCEPT ![t] = Head(stack[t]).notifyUp]
         /\ notifyDown' = [notifyDown EXCEPT ![t] = Head(stack[t]).notifyDown]
         /\ pre' = [pre EXCEPT ![t] = Head(stack[t]).pre]
         /\ stack' = [stack EXCEPT ![t] = Tail(@)]

Snapshot(s) ==
    [at |-> clock, isDown |-> s.isDown, failCounter |-> s.failCounter,
     failTimestamp |-> s.failTimestamp, count |-> primaryOnlineCount]

\* ------------------------------------------------- LoadBalancer (spec 4.3)
\* Add's validation: weight >= 1 unless maxFails == 0, failTimeout >= 0
ValidOptions(o) ==
    /\ o.Weight >= 1 \/ o.MaxFails = 0
    /\ o.MaxFails >= 0
    /\ o.FailTimeout >= 0

\* LoadBalancer.Add: append to the primary or the backup group; a primary
\* starts Up and is counted in primaryOnlineCount
AddServer(o) ==
    IF o.IsBackup
    THEN /\ backupGroup' = [backupGroup EXCEPT !.srvList = Append(@, NewServer(o))]
         /\ hist' = ([backup |-> TRUE, idx |-> Len(backupGroup.srvList) + 1] :> NewHist) @@ hist
         /\ lin' = [lin EXCEPT !.backup = Append(@, NewServer(o))]
         /\ UNCHANGED << primaryGroup, primaryOnlineCount >>
    ELSE /\ primaryGroup' = [primaryGroup EXCEPT !.srvList = Append(@, NewServer(o))]
         /\ hist' = ([backup |-> FALSE, idx |-> Len(primaryGroup.srvList) + 1] :> NewHist) @@ hist
         /\ lin' = [lin EXCEPT !.primary = Append(@, NewServer(o)), !.count = @ + 1]
         /\ primaryOnlineCount' = primaryOnlineCount + 1
         /\ UNCHANGED backupGroup

Add(o) ==
    /\ mtx = {}
    /\ Len(primaryGroup.srvList) + Len(backupGroup.srvList) < MaxServers
    /\ ValidOptions(o)
    /\ AddServer(o)
    /\ UNCHANGED << mtx, clock, pc, srv, now, notifyUp, notifyDown, events, calls,
                    pre, flips, lastCall,
                    stack, returned, sources, added >>

\* LoadBalancer.raiseEvent: the handler is called synchronously with the
\* event type and the server
raiseEvent(eventType, r) ==
    events' = Append(events, [type |-> eventType, srv |-> r])

\* an Unlock that leaves the mutex held
Unlock_Forgotten(t) == mtx' = mtx

\* a Lock that does not wait for the holder
Lock_NotExclusive(t) == mtx' = mtx \cup {t}

\* sync.Mutex Lock and Unlock
Lock(t) == mtx = {} /\ mtx' = {t}
Unlock(t) == mtx' = mtx \ {t}

\* ------------------------------------------------------ Server.SetOnline
\* the early return testing only maxFails
NotTracked_MaxFailsOnly(s) == s.opts.MaxFails = 0

\* the early return testing only the backup flag
NotTracked_BackupOnly(s) == s.opts.IsBackup

\* "We only can change the online/offline status on primary servers"
NotTracked(s) == s.opts.MaxFails = 0 \/ s.opts.IsBackup

\* SetOnline run as one step on the health state h
SeqSetOnline(h, r) ==
    LET s == IF r.backup THEN h.backup[r.idx] ELSE h.primary[r.idx]
        s1 == [s EXCEPT !.failCounter = 0, !.isDown = FALSE]
    IN IF NotTracked(s) THEN h
       ELSE IF r.backup
            THEN [h EXCEPT !.backup[r.idx] = s1,
                           !.count = IF s.isDown THEN @ + 1 ELSE @]
            ELSE [h EXCEPT !.primary[r.idx] = s1,
                           !.count = IF s.isDown THEN @ + 1 ELSE @]

\* lines 46-50: the call, and its early return
SetOnline(t, r) ==
    /\ pc[t] = "idle"
    /\ calls < MaxCalls
    /\ calls' = calls + 1
    /\ lastCall' = Called("SetOnline", r)
    /\ IF NotTracked(Deref(r))
       THEN UNCHANGED << pc, srv >>
       ELSE /\ Goto(t, "on_lock")
            /\ srv' = [srv EXCEPT ![t] = r]
    /\ UNCHANGED << primaryGroup, backupGroup, primaryOnlineCount, mtx, clock, now,
                    notifyUp, notifyDown, events, pre, flips, hist,
                    lin, stack, returned, sources, added >>

\* line 55: srv.lb.mtx.Lock()
OnLock(t) ==
    /\ pc[t] = "on_lock"
    /\ Lock(t)
    /\ Goto(t, "on_reset")
    /\ UNCHANGED << primaryGroup, backupGroup, primaryOnlineCount, clock, srv, now,
                    notifyUp, notifyDown, events, calls, pre, flips, hist, lastCall,
                    lin, stack, returned, sources, added >>

\* SetOnline keeping the failure counter
OnReset_KeepCounter(t) ==
    /\ pc[t] = "on_reset"
    /\ pre' = [pre EXCEPT ![t] = Snapshot(Deref(srv[t]))]
    /\ hist' = [hist EXCEPT ![srv[t]].run = << >>]
    /\ lin' = SeqSetOnline(lin, srv[t])
    /\ Goto(t, "on_isdown")
    /\ UNCHANGED << primaryGroup, backupGroup, primaryOnlineCount, mtx, clock, srv,
                    now, notifyUp, notifyDown, events, calls, flips, lastCall,
                    stack, returned, sources, added >>

\* line 58: srv.failCounter = 0
OnReset(t) ==
    /\ pc[t] = "on_reset"
    /\ UpdateServer(srv[t], [Deref(srv[t]) EXCEPT !.failCounter = 0])
    /\ pre' = [pre EXCEPT ![t] = Snapshot(Deref(srv[t]))]
    /\ hist' = [hist EXCEPT ![srv[t]].run = << >>]
    /\ lin' = SeqSetOnline(lin, srv[t])
    /\ Goto(t, "on_isdown")
    /\ UNCHANGED << primaryOnlineCount, mtx, clock, srv, now, notifyUp, notifyDown,
                    events, calls, flips, lastCall,
                    stack, returned, sources, added >>

\* lines 61-62: if srv.isDown { srv.isDown = false
OnIsDown(t) ==
    /\ pc[t] = "on_isdown"
    /\ IF Deref(srv[t]).isDown
       THEN /\ UpdateServer(srv[t], [Deref(srv[t]) EXCEPT !.isDown = FALSE])
            /\ flips' = Append(flips, [type |-> ServerUpEvent, srv |-> srv[t]])
            /\ hist' = [hist EXCEPT ![srv[t]].downAt = << >>]
            /\ Goto(t, "on_count")
       ELSE /\ Goto(t, "on_unlock")
            /\ UNCHANGED << primaryGroup, backupGroup, flips, hist >>
    /\ UNCHANGED << primaryOnlineCount, mtx, clock, srv, now, notifyUp, notifyDown,
                    events, calls, pre, lastCall,
                    lin, stack, returned, sources, added >>

\* SetOnline forgetting to count the server it put online again
OnCount_NoIncrement(t) ==
    /\ pc[t] = "on_count"
    /\ notifyUp' = [notifyUp EXCEPT ![t] = TRUE]
    /\ Goto(t, "on_unlock")
    /\ UNCHANGED << primaryGroup, backupGroup, primaryOnlineCount, mtx, clock, srv,
                    now, notifyDown, events, calls, pre, flips, hist, lastCall,
                    lin, stack, returned, sources, added >>

\* lines 63-65: srv.lb.primaryOnlineCount += 1; notifyUp = true
OnCount(t) ==
    /\ pc[t] = "on_count"
    /\ primaryOnlineCount' = primaryOnlineCount + 1
    /\ notifyUp' = [notifyUp EXCEPT ![t] = TRUE]
    /\ Goto(t, "on_unlock")
    /\ UNCHANGED << primaryGroup, backupGroup, mtx, clock, srv, now, notifyDown,
                    events, calls, pre, flips, hist, lastCall,
                    lin, stack, returned, sources, added >>

\* line 69: srv.lb.mtx.Unlock(); line 72: if notifyUp
OnUnlock(t) ==
    /\ pc[t] = "on_unlock"
    /\ Unlock(t)
    /\ IF notifyUp[t]
       THEN /\ Goto(t, "on_raise")
            /\ UNCHANGED << srv, now, notifyUp, notifyDown, pre, stack >>
       ELSE Return(t)
    /\ UNCHANGED << primaryGroup, backupGroup, primaryOnlineCount, clock, events,
                    calls, flips, hist, lastCall,
                    lin, returned, sources, added >>

\* line 73: srv.lb.raiseEvent(ServerUpEvent, srv)
OnRaise(t) ==
    /\ pc[t] = "on_raise"
    /\ raiseEvent(ServerUpEvent, srv[t])
    /\ Return(t)
    /\ UNCHANGED << primaryGroup, backupGroup, primaryOnlineCount, mtx, clock,
                    calls, flips, hist, lastCall,
                    lin, returned, sources, added >>

\* ----------------------------------------------------- Server.SetOffline
\* the last n elements of a sequence
LastN(q, n) == IF Len(q) <= n THEN q ELSE SubSeq(q, Len(q) - n + 1, Len(q))

\* history: a SetOffline call on server s at the present time
Record(h, s) ==
    [h EXCEPT
       !.run = LastN(Append(@, Snapshot(s)), s.opts.MaxFails),
       !.spaced = @ /\ (h.lastOffAt = << >> \/ clock - h.lastOffAt[1] > s.opts.FailTimeout),
       !.lastOffAt = << clock >>]

\* lines 78-82: the call, and its early return
SetOffline(t, r) ==
    /\ pc[t] = "idle"
    /\ calls < MaxCalls
    /\ calls' = calls + 1
    /\ lastCall' = Called("SetOffline", r)
    /\ IF NotTracked(Deref(r))
       THEN UNCHANGED << pc, srv >>
       ELSE /\ Goto(t, "off_lock")
            /\ srv' = [srv EXCEPT ![t] = r]
    /\ UNCHANGED << primaryGroup, backupGroup, primaryOnlineCount, mtx, clock, now,
                    notifyUp, notifyDown, events, pre, flips, hist,
                    lin, stack, returned, sources, added >>

\* line 87: srv.lb.mtx.Lock()
OffLock(t) ==
    /\ pc[t] = "off_lock"
    /\ Lock(t)
    /\ Goto(t, "off_guard")
    /\ UNCHANGED << primaryGroup, backupGroup, primaryOnlineCount, clock, srv, now,
                    notifyUp, notifyDown, events, calls, pre, flips, hist, lastCall,
                    lin, stack, returned, sources, added >>

\* the guard letting every failure through
StillUp_NoCheck(s) == TRUE

\* the guard counting failures of a server that is already down
StillUp_IgnoreDown(s) == s.failCounter <= s.opts.MaxFails

\* line 90: the server is up and has not reached the maximum failure count
StillUp(s) == ~s.isDown /\ s.failCounter < s.opts.MaxFails

\* SetOffline never resetting the counter of an expired failure window
Window_NoReset(s, tnow) ==
    IF s.failCounter = 1
    THEN [s EXCEPT !.failTimestamp = TimeAdd(tnow, s.opts.FailTimeout)]
    ELSE s

\* lines 96-106: the first failure sets the fail timestamp limit; a later one
\* that passed after the fail timeout resets the counter
Window(s, tnow) ==
    IF s.failCounter = 1
    THEN [s EXCEPT !.failTimestamp = TimeAdd(tnow, s.opts.FailTimeout)]
    ELSE IF After(tnow, s.failTimestamp)
         THEN [s EXCEPT !.failCounter = 1]
         ELSE s

\* SetOffline putting the server offline without a new recovery deadline
PutOffline_NoDeadline(s, tnow) == [s EXCEPT !.isDown = TRUE]

\* SetOffline putting the server offline with a deadline of now
PutOffline_NoTimeout(s, tnow) == [s EXCEPT !.isDown = TRUE, !.failTimestamp = tnow]

\* lines 110-111: srv.isDown = true; srv.failTimestamp = now.Add(srv.opts.FailTimeout)
PutOffline(s, tnow) ==
    [s EXCEPT !.isDown = TRUE, !.failTimestamp = TimeAdd(tnow, s.opts.FailTimeout)]

\* SetOffline run as one step on the health state h at time tnow
SeqSetOffline(h, r, tnow) ==
    LET s == IF r.backup THEN h.backup[r.idx] ELSE h.primary[r.idx]
        s1 == Window([s EXCEPT !.failCounter = @ + 1], tnow)
        down == s1.failCounter = s1.opts.MaxFails
        s2 == IF down THEN PutOffline(s1, tnow) ELSE s1
    IN IF NotTracked(s) \/ ~StillUp(s) THEN h
       ELSE IF r.backup
            THEN [h EXCEPT !.backup[r.idx] = s2,
                           !.count = IF down THEN @ - 1 ELSE @]
            ELSE [h EXCEPT !.primary[r.idx] = s2,
                           !.count = IF down THEN @ - 1 ELSE @]

\* lines 90-91: if !srv.isDown && srv.failCounter < srv.opts.MaxFails { now := time.Now()
OffGuard(t) ==
    /\ pc[t] = "off_guard"
    /\ pre' = [pre EXCEPT ![t] = Snapshot(Deref(srv[t]))]
    /\ hist' = [hist EXCEPT ![srv[t]] = Record(@, Deref(srv[t]))]
    /\ lin' = SeqSetOffline(lin, srv[t], clock)
    /\ IF StillUp(Deref(srv[t]))
       THEN /\ now' = [now EXCEPT ![t] = clock]
            /\ Goto(t, "off_inc")
       ELSE /\ Goto(t, "off_unlock")
            /\ UNCHANGED now
    /\ UNCHANGED << primaryGroup, backupGroup, primaryOnlineCount, mtx, clock, srv,
                    notifyUp, notifyDown, events, calls, flips, lastCall,
                    stack, returned, sources, added >>

\* line 94: srv.failCounter += 1
OffInc(t) ==
    /\ pc[t] = "off_inc"
    /\ UpdateServer(srv[t], [Deref(srv[t]) EXCEPT !.failCounter = @ + 1])
    /\ Goto(t, "off_window")
    /\ UNCHANGED << primaryOnlineCount, mtx, clock, srv, now, notifyUp, notifyDown,
                    events, calls, pre, flips, hist, lastCall,
                    lin, stack, returned, sources, added >>

\* lines 96-106 as a step of the call
OffWindow(t) ==
    /\ pc[t] = "off_window"
    /\ UpdateServer(srv[t], Window(Deref(srv[t]), now[t]))
    /\ Goto(t, "off_limit")
    /\ UNCHANGED << primaryOnlineCount, mtx, clock, srv, now, notifyUp, notifyDown,
                    events, calls, pre, flips, hist, lastCall,
                    lin, stack, returned, sources, added >>

\* lines 109-111: if srv.failCounter == srv.opts.MaxFails
OffLimit(t) ==
    /\ pc[t] = "off_limit"
    /\ IF Deref(srv[t]).failCounter = Deref(srv[t]).opts.MaxFails
       THEN /\ UpdateServer(srv[t], PutOffline(Deref(srv[t]), now[t]))
            /\ flips' = Append(flips, [type |-> ServerDownEvent, srv |-> srv[t]])
            /\ hist' = [hist EXCEPT ![srv[t]].downAt = << now[t] >>]
            /\ Goto(t, "off_count")
       ELSE /\ Goto(t, "off_unlock")
            /\ UNCHANGED << primaryGroup, backupGroup, flips, hist >>
    /\ UNCHANGED << primaryOnlineCount, mtx, clock, srv, now, notifyUp, notifyDown,
                    events, calls, pre, lastCall,
                    lin, stack, returned, sources, added >>

\* lines 112-114: srv.lb.primaryOnlineCount -= 1; notifyDown = true
OffCount(t) ==
    /\ pc[t] = "off_count"
    /\ primaryOnlineCount' = primaryOnlineCount - 1
    /\ notifyDown' = [notifyDown EXCEPT ![t] = TRUE]
    /\ Goto(t, "off_unlock")
    /\ UNCHANGED << primaryGroup, backupGroup, mtx, clock, srv, now, notifyUp,
                    events, calls, pre, flips, hist, lastCall,
                    lin, stack, returned, sources, added >>

\* SetOffline raising the event whether or not it put the server offline
OffUnlock_AlwaysRaise(t) ==
    /\ pc[t] = "off_unlock"
    /\ Unlock(t)
    /\ Goto(t, "off_raise")
    /\ UNCHANGED << primaryGroup, backupGroup, primaryOnlineCount, clock, srv, now,
                    notifyUp, notifyDown, events, calls, pre, flips, hist, lastCall,
                    lin, stack, returned, sources, added >>

\* SetOffline raising the event before it unlocks
OffUnlock_RaiseLocked(t) ==
    /\ pc[t] = "off_unlock"
    /\ IF notifyDown[t]
       THEN /\ Goto(t, "off_raise")
            /\ UNCHANGED << mtx, srv, now, notifyUp, notifyDown, pre, stack >>
       ELSE Unlock(t) /\ Return(t)
    /\ UNCHANGED << primaryGroup, backupGroup, primaryOnlineCount, clock, events,
                    calls, flips, hist, lastCall,
                    lin, returned, sources, added >>

\* line 119: srv.lb.mtx.Unlock(); line 122: if notifyDown
OffUnlock(t) ==
    /\ pc[t] = "off_unlock"
    /\ Unlock(t)
    /\ IF notifyDown[t]
       THEN /\ Goto(t, "off_raise")
            /\ UNCHANGED << srv, now, notifyUp, notifyDown, pre, stack >>
       ELSE Return(t)
    /\ UNCHANGED << primaryGroup, backupGroup, primaryOnlineCount, clock, events,
                    calls, flips, hist, lastCall,
                    lin, returned, sources, added >>

\* line 123: srv.lb.raiseEvent(ServerDownEvent, srv)
OffRaise(t) ==
    /\ pc[t] = "off_raise"
    /\ raiseEvent(ServerDownEvent, srv[t])
    /\ Return(t)
    /\ UNCHANGED << primaryGroup, backupGroup, primaryOnlineCount, mtx, clock,
                    calls, flips, hist, lastCall,
                    lin, returned, sources, added >>

\* ------------------------------------------- ServerGroup selection (spec 4.2)
\* the decrement of currServerWeight on each full cycle
WeightStep == 1

RECURSIVE MaxWeightOf(_)
MaxWeightOf(list) ==
    IF list = << >> THEN 0
    ELSE LET m == MaxWeightOf(Tail(list))
         IN IF Head(list).opts.Weight > m THEN Head(list).opts.Weight ELSE m

\* a server may be selected when it is Up, or lazily once the present time is
\* past its recovery deadline (spec 5)
Eligible(s, tnow) == ~s.isDown \/ After(tnow, s.failTimestamp)

\* the weight after the index wrapped to 0
NextWeight(g, w) ==
    IF w - WeightStep <= 0 THEN MaxWeightOf(g.srvList) ELSE w - WeightStep

\* advance the cursor until a server of sufficient weight is eligible, at most
\* one full cycle of servers x maxWeight steps
RECURSIVE Scan(_, _, _, _, _)
Scan(g, tnow, idx, w, left) ==
    IF left = 0
    THEN [found |-> FALSE, at |-> 0, idx |-> idx, w |-> w]
    ELSE LET i == (idx + 1) % Len(g.srvList)
             w1 == IF i = 0 THEN NextWeight(g, w) ELSE w
             s == g.srvList[i + 1]
         IN IF s.opts.Weight >= w1 /\ Eligible(s, tnow)
            THEN [found |-> TRUE, at |-> i + 1, idx |-> i, w |-> w1]
            ELSE Scan(g, tnow, i, w1, left - 1)

Select(g, tnow) ==
    IF g.srvList = << >>
    THEN [found |-> FALSE, at |-> 0, idx |-> g.currServerIdx, w |-> g.currServerWeight]
    ELSE Scan(g, tnow, g.currServerIdx, g.currServerWeight,
              Len(g.srvList) * (MaxWeightOf(g.srvList) + 1))

MoveCursor(g, sel) == [g EXCEPT !.currServerIdx = sel.idx, !.currServerWeight = sel.w]

\* history: what a Next call at the present time saw and returned
Observe(err, r) ==
    [op |-> "Next", srv |-> r, err |-> err, at |-> clock,
     allDown |-> \A i \in Primaries :
                    /\ P(i).isDown
                    /\ ~After(clock, H([backup |-> FALSE, idx |-> i]).downAt[1]
                                       + P(i).opts.FailTimeout),
     hasBackup |-> Backups # {},
     retDown |-> ~err /\ ~r.backup /\ Deref(r).isDown,
     early |-> /\ ~err /\ ~r.backup /\ Deref(r).isDown
               /\ clock < H(r).downAt[1] + Deref(r).opts.FailTimeout]

\* LoadBalancer.Next (spec 4.3): under the lock, select from the primary group,
\* else from the backup group, else fail with NoAvailableServer
LBSelect ==
    LET p == Select(primaryGroup, clock)
        b == Select(backupGroup, clock)
    IN /\ primaryGroup' = MoveCursor(primaryGroup, p)
       /\ IF p.found
          THEN /\ lastCall' = Observe(FALSE, [backup |-> FALSE, idx |-> p.at])
               /\ UNCHANGED backupGroup
          ELSE /\ backupGroup' = MoveCursor(backupGroup, b)
               /\ lastCall' = IF b.found
                              THEN Observe(FALSE, [backup |-> TRUE, idx |-> b.at])
                              ELSE Observe(TRUE, NoServer)

LBNext(t) ==
    /\ pc[t] = "idle"
    /\ calls < MaxCalls
    /\ mtx = {}
    /\ calls' = calls + 1
    /\ LBSelect
    /\ UNCHANGED << primaryOnlineCount, mtx, clock, pc, srv, now, notifyUp,
                    notifyDown, events, pre, flips, hist,
                    lin, stack, returned, sources, added >>

\* ------------------------------------------------------------- the clock
\* time passes between any two statements
Tick ==
    /\ clock < MaxTime
    /\ clock' = clock + 1
    /\ UNCHANGED << primaryGroup, backupGroup, primaryOnlineCount, mtx, pc, srv,
                    now, notifyUp, notifyDown, events, calls, pre, flips, hist,
                    lastCall,
                    lin, stack, returned, sources, added >>

Next ==
    \/ \E o \in HealthOptions : Add(o)
    \/ \E t \in Threads, r \in Refs : SetOnline(t, r)
    \/ \E t \in Threads : OnLock(t)
    \/ \E t \in Threads : OnReset(t)
    \/ \E t \in Threads : OnIsDown(t)
    \/ \E t \in Threads : OnCount(t)
    \/ \E t \in Threads : OnUnlock(t)
    \/ \E t \in Threads : OnRaise(t)
    \/ \E t \in Threads, r \in Refs : SetOffline(t, r)
    \/ \E t \in Threads : OffLock(t)
    \/ \E t \in Threads : OffGuard(t)
    \/ \E t \in Threads : OffInc(t)
    \/ \E t \in Threads : OffWindow(t)
    \/ \E t \in Threads : OffLimit(t)
    \/ \E t \in Threads : OffCount(t)
    \/ \E t \in Threads : OffUnlock(t)
    \/ \E t \in Threads : OffRaise(t)
    \/ \E t \in Threads : LBNext(t)
    \/ Tick

Spec == Init /\ [][Next]_vars

\* ------------------------------------- weighted round robin (spec 4.2, 8)
\* Primaries that are always Up, of every weight up to MaxWeight; once they
\* are added, Next is called MaxPicks times.
WrrOptions ==
    { [Weight |-> w, MaxFails |-> 0, FailTimeout |-> 1, IsBackup |-> FALSE] :
        w \in 1..MaxWeight }

WrrAdd(o) ==
    /\ returned = << >>
    /\ Add(o)

WrrNext ==
    /\ primaryGroup.srvList # << >>
    /\ Len(returned) < MaxPicks
    /\ mtx = {}
    /\ LBSelect
    /\ returned' = Append(returned, lastCall'.srv)
    /\ UNCHANGED << primaryOnlineCount, mtx, clock, pc, srv, now, notifyUp,
                    notifyDown, events, calls, pre, flips, hist, lin, stack,
                    sources, added >>

NextWRR ==
    \/ \E o \in WrrOptions : WrrAdd(o)
    \/ WrrNext
    \/ Tick

SpecWRR == Init /\ [][NextWRR]_vars

\* ------------------------------------------- a handler that calls back
\* Servers whose every failure or recovery is a transition or close to one.
HandlerOptions ==
    { [Weight |-> 1, MaxFails |-> 1, FailTimeout |-> 1, IsBackup |-> FALSE],
      [Weight |-> 1, MaxFails |-> 2, FailTimeout |-> 1, IsBackup |-> FALSE] }

\* the call of thread t as it waits in raiseEvent for the handler to return
Frame(t) ==
    [pc |-> "handled", srv |-> srv[t], now |-> now[t], notifyUp |-> notifyUp[t],
     notifyDown |-> notifyDown[t], pre |-> pre[t]]

\* the handler, called on thread t with no lock held: it calls SetOnline or
\* SetOffline on server r once and returns; MaxDepth calls deep, or after
\* MaxCalls calls, it only returns
Handle(t, op, r) ==
    IF Len(stack[t]) >= MaxDepth \/ calls >= MaxCalls \/ NotTracked(Deref(r))
    THEN /\ Goto(t, "handled")
         /\ UNCHANGED << srv, now, notifyUp, notifyDown, pre, stack, calls >>
    ELSE /\ stack' = [stack EXCEPT ![t] = << Frame(t) >> \o @]
         /\ calls' = calls + 1
         /\ Goto(t, IF op = "SetOnline" THEN "on_lock" ELSE "off_lock")
         /\ srv' = [srv EXCEPT ![t] = r]
         /\ now' = [now EXCEPT ![t] = ZeroTime]
         /\ notifyUp' = [notifyUp EXCEPT ![t] = FALSE]
         /\ notifyDown' = [notifyDown EXCEPT ![t] = FALSE]
         /\ pre' = [pre EXCEPT ![t] = NoPre]

\* line 73, raiseEvent calling a handler that calls back instead of recording
OnRaiseHandled(t) ==
    /\ pc[t] = "on_raise"
    /\ \E op \in {"SetOnline", "SetOffline"}, r \in Refs : Handle(t, op, r)
    /\ UNCHANGED << primaryGroup, backupGroup, primaryOnlineCount, mtx, clock,
                    events, flips, hist, lastCall, lin, returned, sources, added >>

\* line 123, raiseEvent calling a handler that calls back
OffRaiseHandled(t) ==
    /\ pc[t] = "off_raise"
    /\ \E op \in {"SetOnline", "SetOffline"}, r \in Refs : Handle(t, op, r)
    /\ UNCHANGED << primaryGroup, backupGroup, primaryOnlineCount, mtx, clock,
                    events, flips, hist, lastCall, lin, returned, sources, added >>

\* lines 74, 124: the handler has returned, and so does the call that raised
Handled(t) ==
    /\ pc[t] = "handled"
    /\ Return(t)
    /\ UNCHANGED << primaryGroup, backupGroup, primaryOnlineCount, mtx, clock,
                    events, calls, flips, hist, lastCall, lin, returned, sources,
                    added >>

\* the steps of a call under way that wait for nothing
Proceed(t) ==
    \/ OnReset(t) \/ OnIsDown(t) \/ OnCount(t) \/ OnUnlock(t) \/ OnRaiseHandled(t)
    \/ OffGuard(t) \/ OffInc(t) \/ OffWindow(t) \/ OffLimit(t) \/ OffCount(t)
    \/ OffUnlock(t) \/ OffRaiseHandled(t) \/ Handled(t)

\* the step that waits for the mutex
Acquire(t) == OnLock(t) \/ OffLock(t)

NextHandler ==
    \/ \E o \in HandlerOptions : Add(o)
    \/ \E t \in Threads, r \in Refs : SetOnline(t, r)
    \/ \E t \in Threads : OnLock(t)
    \/ \E t \in Threads : OnReset(t)
    \/ \E t \in Threads : OnIsDown(t)
    \/ \E t \in Threads : OnCount(t)
    \/ \E t \in Threads : OnUnlock(t)
    \/ \E t \in Threads : OnRaiseHandled(t)
    \/ \E t \in Threads, r \in Refs : SetOffline(t, r)
    \/ \E t \in Threads : OffLock(t)
    \/ \E t \in Threads : OffGuard(t)
    \/ \E t \in Threads : OffInc(t)
    \/ \E t \in Threads : OffWindow(t)
    \/ \E t \in Threads : OffLimit(t)
    \/ \E t \in Threads : OffCount(t)
    \/ \E t \in Threads : OffUnlock(t)
    \/ \E t \in Threads : OffRaiseHandled(t)
    \/ \E t \in Threads : Handled(t)

\* the scheduler runs every runnable thread, and sync.Mutex hands the lock to a
\* thread that keeps waiting for it
SpecHandler ==
    /\ Init
    /\ [][NextHandler]_vars
    /\ \A t \in Threads : WF_vars(Proceed(t)) /\ SF_vars(Acquire(t))

\* ------------------------------------- HttpClient (src/unnamed/part_000)
\* Base URLs as sequences of tokens: a scheme with its "://", or one character.
BaseURLs ==
    { << "http://", "a" >>,
      << "https://", "b", "/" >>,
      << "http://", "a", ":", "8", "/" >>,
      << "x", "http://", "a" >>,
      << "a" >>,
      << "http://" >>,
      << "http://", "a", "/", "p" >>,
      << "http://", "a", ":", "/" >> }

\* SourceOptions: the ServerOptions part; the third is one Add rejects
HttpOptions ==
    { [Weight |-> 1, MaxFails |-> 1, FailTimeout |-> 1, IsBackup |-> FALSE],
      [Weight |-> 1, MaxFails |-> 1, FailTimeout |-> 1, IsBackup |-> TRUE],
      [Weight |-> 0, MaxFails |-> 1, FailTimeout |-> 1, IsBackup |-> FALSE] }

\* [^:/?#] and \d
HostChar(c) == c \notin {":", "/", "?", "#", "http://", "https://"}
Digit(c) == c \in {"0", "8", "9"}

\* (:\d+)?/?$ on the rest q of the URL
PortAndSlash(q) ==
    \/ q = << >>
    \/ q = << "/" >>
    \/ /\ Len(q) >= 2
       /\ q[1] = ":"
       /\ \E d \in 2..Len(q) :
             /\ \A k \in 2..d : Digit(q[k])
             /\ SubSeq(q, d + 1, Len(q)) \in { << >>, << "/" >> }

\* line 93: regexp.MatchString(`https?://([^:/?#]+)(:\d+)?/?$`, baseURL); the
\* pattern is not anchored at the start
MatchBaseURL(u) ==
    \E i \in 1..Len(u) :
        /\ u[i] \in {"http://", "https://"}
        /\ \E h \in (i + 1)..Len(u) :
              /\ \A k \in (i + 1)..h : HostChar(u[k])
              /\ PortAndSlash(SubSeq(u, h + 1, Len(u)))

\* lines 99-101: remove trailing slash
TrimSlash(u) == IF u[Len(u)] = "/" THEN SubSeq(u, 1, Len(u) - 1) ELSE u

\* lines 104-111: the new Source
NewSource(u, o) ==
    [id |-> Len(sources) + 1, baseURL |-> TrimSlash(u), isBackup |-> o.IsBackup,
     lastError |-> "nil"]

\* an error path that keeps the source it appended
Rollback_Keep(list) == list

\* line 124: c.sources = c.sources[0:len(c.sources)-1]
Rollback(list) == SubSeq(list, 1, Len(list) - 1)

\* lines 91-130: AddSource(baseURL, opts), one call at a time
AddSource(baseURL, opts) ==
    /\ added.ok + added.rejected + added.refused < MaxSources
    /\ mtx = {}
    /\ IF ~MatchBaseURL(baseURL)
       THEN /\ added' = [added EXCEPT !.rejected = @ + 1]
            /\ UNCHANGED << sources, primaryGroup, backupGroup, primaryOnlineCount,
                            hist, lin >>
       ELSE LET appended == Append(sources, NewSource(baseURL, opts))
            IN IF ValidOptions(opts)
               THEN /\ sources' = appended
                    /\ AddServer(opts)
                    /\ added' = [added EXCEPT !.ok = @ + 1]
               ELSE /\ sources' = Rollback(appended)
                    /\ added' = [added EXCEPT !.refused = @ + 1]
                    /\ UNCHANGED << primaryGroup, backupGroup, primaryOnlineCount,
                                    hist, lin >>
    /\ UNCHANGED << mtx, clock, pc, srv, now, notifyUp, notifyDown, events, calls,
                    pre, flips, lastCall, stack, returned >>

\* lines 133-135
SourcesCount == Len(sources)

\* lines 138-148: a *SourceState, nil as the empty sequence
Nil == << >>
SourceState(index) ==
    IF index < 0 \/ index >= Len(sources)
    THEN Nil
    ELSE << [BaseURL |-> sources[index + 1].baseURL,
             IsBackup |-> sources[index + 1].isBackup,
             LastError |-> sources[index + 1].lastError] >>

NextHttp == \E u \in BaseURLs, o \in HttpOptions : AddSource(u, o)

SpecHttp == Init /\ [][NextHttp]_vars

\* ============================================================ properties
Tracked == { r \in Refs : ~NotTracked(Deref(r)) }
Idle == \A t \in Threads : pc[t] = "idle"
OnlinePrimaries == { i \in Primaries : ~P(i).isDown }

\* C1: whenever the mutex is not held, primaryOnlineCount equals the number of
\* primary servers with isDown == false; in every state it is neither negative
\* nor larger than the number of primaries.
C1_OnlineCountMatches ==
    /\ mtx = {} => primaryOnlineCount = Cardinality(OnlinePrimaries)
    /\ primaryOnlineCount >= 0
    /\ primaryOnlineCount <= Len(primaryGroup.srvList)

\* two primaries, one of them Down again after having been put online, all
\* calls returned
C1_Witness ==
    /\ Idle /\ mtx = {}
    /\ Len(primaryGroup.srvList) = 2
    /\ Cardinality(OnlinePrimaries) = 1
    /\ \E k \in 1..Len(flips) : flips[k].type = ServerUpEvent
    /\ Len(flips) >= 3

\* C2 as stated: in every reachable state 0 <= failCounter <= maxFails, and
\* isDown implies failCounter == maxFails.
C2_Original ==
    \A r \in Refs :
        /\ Deref(r).failCounter >= 0
        /\ Deref(r).failCounter <= Deref(r).opts.MaxFails
        /\ Deref(r).isDown => Deref(r).failCounter = Deref(r).opts.MaxFails

\* a SetOnline call on r has reset failCounter and not yet tested isDown
ResettingOnline(r) == \E t \in Threads : pc[t] = "on_isdown" /\ srv[t] = r

\* C2 amended: in every reachable state 0 <= failCounter <= maxFails; isDown
\* implies failCounter == maxFails except inside SetOnline's critical section,
\* between the reset of failCounter and the test of isDown.
C2_CounterInRange ==
    \A r \in Refs :
        /\ Deref(r).failCounter >= 0
        /\ Deref(r).failCounter <= Deref(r).opts.MaxFails
        /\ (Deref(r).isDown /\ ~ResettingOnline(r))
              => Deref(r).failCounter = Deref(r).opts.MaxFails

\* a server of maxFails 3 is Down with its counter at 3, the mutex free
C2_Witness ==
    /\ mtx = {}
    /\ \E r \in Refs : /\ Deref(r).isDown
                       /\ Deref(r).opts.MaxFails = 3
                       /\ Deref(r).failCounter = 3

\* no SetOffline call on r is between its guard and its last write
Settled(r) ==
    ~\E t \in Threads : srv[t] = r /\ pc[t] \in {"off_inc", "off_window", "off_limit"}

\* the last n = maxFails SetOffline calls on r since the last SetOnline began
\* with the server Up and lie within less than failTimeout of each other
QuickFailures(r) ==
    LET n == Deref(r).opts.MaxFails
        run == H(r).run
    IN /\ Len(run) = n
       /\ ~run[1].isDown
       /\ run[n].at - run[1].at < Deref(r).opts.FailTimeout

\* C3: n = maxFails SetOffline calls on an Up primary, with no SetOnline between
\* them and all within less than failTimeout of each other, leave the server
\* Down, whatever failures were reported before.
C3_QuickFailuresPutDown ==
    \A r \in Tracked : (Settled(r) /\ QuickFailures(r)) => Deref(r).isDown

\* the same, restricted to runs that start with failCounter == 0 or end before
\* the failure window recorded at their start has passed
C3_FreshWindowPutsDown ==
    \A r \in Tracked :
        ( /\ Settled(r)
          /\ QuickFailures(r)
          /\ \/ H(r).run[1].failCounter = 0
             \/ ~After(H(r).run[Len(H(r).run)].at, H(r).run[1].failTimestamp) )
        => Deref(r).isDown

\* the SetOffline calls on r so far were each more than failTimeout after the
\* one before
Spaced(r) == Deref(r).opts.MaxFails >= 2 /\ H(r).spaced

\* C4: while every two consecutive SetOffline calls on a primary of
\* maxFails >= 2 are more than failTimeout apart, the server is never Down and
\* no ServerDownEvent is raised for it; each such call ends with
\* failCounter == 1 and primaryOnlineCount as it found it.
C4_SpacedFailuresNeverPutDown ==
    \A r \in Tracked :
        Spaced(r) =>
            /\ ~Deref(r).isDown
            /\ \A k \in 1..Len(events) :
                  events[k] # [type |-> ServerDownEvent, srv |-> r]
            /\ \A t \in Threads :
                  srv[t] = r =>
                      /\ ~notifyDown[t]
                      /\ pc[t] \notin {"off_count", "off_raise"}
                      /\ pc[t] = "off_unlock" =>
                            /\ Deref(r).failCounter = 1
                            /\ primaryOnlineCount = pre[t].count

\* a spaced SetOffline call that found failCounter == 1 has finished its writes
C4_Witness ==
    \E t \in Threads :
        /\ pc[t] = "off_unlock"
        /\ Spaced(srv[t])
        /\ pre[t].failCounter = 1
        /\ After(pre[t].at, pre[t].failTimestamp)

\* C5: a server with maxFails == 0 is never Down, keeps failCounter and
\* failTimestamp as created, has no event raised for it, and no call on it
\* gets past the early return (so none locks the mutex or touches
\* primaryOnlineCount).
C5_UntrackedNeverChanges ==
    \A r \in Refs :
        Deref(r).opts.MaxFails = 0 =>
            /\ ~Deref(r).isDown
            /\ Deref(r).failCounter = 0
            /\ Deref(r).failTimestamp = ZeroTime
            /\ \A t \in Threads : srv[t] # r
            /\ \A k \in 1..Len(events) : events[k].srv # r
            /\ \A k \in 1..Len(flips) : flips[k].srv # r

\* the last of several calls was SetOffline on a primary with maxFails == 0
C5_Witness ==
    /\ calls = MaxCalls
    /\ lastCall.op = "SetOffline"
    /\ Deref(lastCall.srv).opts.MaxFails = 0
    /\ ~Deref(lastCall.srv).opts.IsBackup
    /\ Idle

\* C6: when a SetOnline call on a tracked primary has done its writes, the
\* server is Up with failCounter == 0 and failTimestamp untouched; if it found
\* the server Down, primaryOnlineCount is one more than it found and a
\* ServerUpEvent will be raised, else the count is as found and none is raised.
C6_SetOnlineRestores ==
    \A t \in Threads :
        /\ pc[t] = "on_unlock" =>
              /\ ~Deref(srv[t]).isDown
              /\ Deref(srv[t]).failCounter = 0
              /\ Deref(srv[t]).failTimestamp = pre[t].failTimestamp
              /\ notifyUp[t] = pre[t].isDown
              /\ primaryOnlineCount = IF pre[t].isDown THEN pre[t].count + 1
                                      ELSE pre[t].count
        /\ pc[t] = "on_raise" => pre[t].isDown /\ notifyUp[t]

\* SetOnline found the server Down, after its recovery deadline
C6_Witness ==
    \E t \in Threads :
        /\ pc[t] = "on_unlock"
        /\ pre[t].isDown
        /\ After(pre[t].at, pre[t].failTimestamp)

Count(q, e) == Cardinality({ k \in 1..Len(q) : q[k] = e })

\* thread t has flipped isDown in this call and not yet raised the event
RaisingUp(t) ==
    pc[t] = "on_count" \/ (pc[t] = "on_unlock" /\ notifyUp[t]) \/ pc[t] = "on_raise"
RaisingDown(t) ==
    pc[t] = "off_count" \/ (pc[t] = "off_unlock" /\ notifyDown[t]) \/ pc[t] = "off_raise"

\* C7: for every server the ServerDownEvents (ServerUpEvents) raised, plus those
\* of calls that flipped isDown and have not raised yet, are as many as the
\* Up-to-Down (Down-to-Up) flips; with all calls returned the numbers are equal.
C7_EventsMatchFlips ==
    \A r \in Refs :
        /\ Count(flips, [type |-> ServerUpEvent, srv |-> r])
              = Count(events, [type |-> ServerUpEvent, srv |-> r])
                + Cardinality({ t \in Threads : srv[t] = r /\ RaisingUp(t) })
        /\ Count(flips, [type |-> ServerDownEvent, srv |-> r])
              = Count(events, [type |-> ServerDownEvent, srv |-> r])
                + Cardinality({ t \in Threads : srv[t] = r /\ RaisingDown(t) })

\* two concurrent SetOffline calls on an Up primary with maxFails == 1: one is
\* about to raise the event, the other found the server Down and raises none
C7_Witness ==
    \E t, u \in Threads :
        /\ t # u
        /\ pc[t] = "off_raise"
        /\ pc[u] = "off_unlock" /\ ~notifyDown[u]
        /\ srv[t] = srv[u]
        /\ Deref(srv[t]).opts.MaxFails = 1
        /\ Count(flips, [type |-> ServerDownEvent, srv |-> srv[t]]) = 1

\* C8: a thread that is raising an event, waiting for the mutex or outside any
\* call does not hold the mutex.
C8_RaiseOutsideLock ==
    \A t \in Threads :
        pc[t] \in {"on_raise", "off_raise", "idle", "on_lock", "off_lock"} => t \notin mtx

\* a thread raises ServerDownEvent while another thread holds the mutex
C8_Witness ==
    \E t, u \in Threads :
        /\ t # u
        /\ pc[t] = "off_raise"
        /\ mtx = {u}

\* C9: while a primary is Down its failTimestamp is the time read by the call
\* that marked it Down plus failTimeout, whatever SetOffline calls follow, and
\* Next returns no Down primary before that time.
C9_DownUntilDeadline ==
    /\ \A r \in Tracked :
          Deref(r).isDown =>
              /\ H(r).downAt # << >>
              /\ Deref(r).failTimestamp = H(r).downAt[1] + Deref(r).opts.FailTimeout
    /\ lastCall.op = "Next" => ~lastCall.early

\* Next was called before the deadline of a Down primary that had received a
\* further SetOffline after it was marked Down, and returned another server or
\* none
C9_Witness ==
    /\ lastCall.op = "Next"
    /\ \E r \in Tracked :
          /\ Deref(r).isDown
          /\ H(r).lastOffAt[1] > H(r).downAt[1]
          /\ lastCall.at >= H(r).lastOffAt[1]
          /\ lastCall.at < Deref(r).failTimestamp
          /\ lastCall.srv # r

\* C10: a Next call that finds every primary Down and none past the time it
\* was marked Down plus failTimeout returns a backup server if there is one
\* and fails with NoAvailableServer if there is none; it returns no Down
\* primary.
C10_AllDownFallsBack ==
    (lastCall.op = "Next" /\ lastCall.allDown) =>
        /\ ~lastCall.retDown
        /\ IF lastCall.hasBackup
           THEN ~lastCall.err /\ lastCall.srv.backup
           ELSE lastCall.err

\* the only primary is Down, and Next returned the backup server
C10_Witness ==
    /\ lastCall.op = "Next"
    /\ lastCall.allDown /\ lastCall.hasBackup
    /\ ~lastCall.err /\ lastCall.srv.backup
    /\ Len(primaryGroup.srvList) = 1
    /\ P(1).isDown
    /\ lastCall.at <= P(1).failTimestamp

\* the only primary is Down, there is no backup, and Next failed
C10_NoBackupCase ==
    /\ lastCall.op = "Next"
    /\ lastCall.allDown /\ ~lastCall.hasBackup /\ lastCall.err
    /\ Len(primaryGroup.srvList) = 1
    /\ P(1).isDown

\* thread t has done all writes of a SetOffline call that found the server Up
\* with a failure window open (1 <= failCounter < maxFails)
OffDoneInWindow(t) ==
    /\ pc[t] = "off_unlock"
    /\ ~pre[t].isDown
    /\ pre[t].failCounter >= 1
    /\ pre[t].failCounter < Deref(srv[t]).opts.MaxFails

\* C12: a SetOffline call on an Up primary with 1 <= failCounter < maxFails
\* whose time is past failTimestamp leaves failCounter == 1 and
\* failTimestamp == now + failTimeout.
C12_ExpiredWindowRestarts ==
    \A t \in Threads :
        (OffDoneInWindow(t) /\ After(now[t], pre[t].failTimestamp)) =>
            /\ Deref(srv[t]).failCounter = 1
            /\ Deref(srv[t]).failTimestamp
                  = TimeAdd(now[t], Deref(srv[t]).opts.FailTimeout)

\* what the call does instead: failCounter == 1, failTimestamp as found
C12_ExpiredWindowKeepsDeadline ==
    \A t \in Threads :
        (OffDoneInWindow(t) /\ After(now[t], pre[t].failTimestamp)) =>
            /\ Deref(srv[t]).failCounter = 1
            /\ Deref(srv[t]).failTimestamp = pre[t].failTimestamp
            /\ ~Deref(srv[t]).isDown

\* C13: a non-first SetOffline at a time equal to (or before) failTimestamp
\* counts toward the window: failCounter is one more than found and the server
\* is Down exactly if that is maxFails; only a time strictly later than
\* failTimestamp resets failCounter to 1.
C13_StrictBoundary ==
    \A t \in Threads :
        OffDoneInWindow(t) =>
            IF now[t] > pre[t].failTimestamp
            THEN Deref(srv[t]).failCounter = 1
            ELSE /\ Deref(srv[t]).failCounter = pre[t].failCounter + 1
                 /\ Deref(srv[t]).isDown
                       = (pre[t].failCounter + 1 = Deref(srv[t]).opts.MaxFails)

\* a second failure exactly at the deadline has put a maxFails == 2 server Down
C13_Witness ==
    \E t \in Threads :
        /\ OffDoneInWindow(t)
        /\ now[t] = pre[t].failTimestamp
        /\ Deref(srv[t]).isDown
        /\ Deref(srv[t]).failCounter = 2

\* C14: a SetOffline call that finds the server Down (or failCounter at
\* maxFails) leaves isDown, failCounter, failTimestamp and primaryOnlineCount
\* as found and raises no event.
C14_OfflineOnDownIsNoOp ==
    \A t \in Threads :
        ( /\ pc[t] \in {"off_inc", "off_window", "off_limit", "off_count",
                        "off_unlock", "off_raise"}
          /\ \/ pre[t].isDown
             \/ pre[t].failCounter = Deref(srv[t]).opts.MaxFails )
        => /\ pc[t] = "off_unlock"
           /\ ~notifyDown[t]
           /\ Deref(srv[t]).isDown = pre[t].isDown
           /\ Deref(srv[t]).failCounter = pre[t].failCounter
           /\ Deref(srv[t]).failTimestamp = pre[t].failTimestamp
           /\ primaryOnlineCount = pre[t].count

\* SetOffline found the server Down, after its recovery deadline, having been
\* called on it while Down before
C14_Witness ==
    \E t \in Threads :
        /\ pc[t] = "off_unlock"
        /\ pre[t].isDown
        /\ After(pre[t].at, pre[t].failTimestamp)
        /\ H(srv[t]).downAt[1] < pre[t].at

\* C15: a backup server is never Down, keeps failCounter and failTimestamp as
\* created, has no event raised for it, and no SetOnline or SetOffline call on
\* it gets past the early return, whatever its maxFails.
C15_BackupNeverChanges ==
    \A r \in Refs :
        r.backup =>
            /\ ~Deref(r).isDown
            /\ Deref(r).failCounter = 0
            /\ Deref(r).failTimestamp = ZeroTime
            /\ \A t \in Threads : srv[t] # r
            /\ \A k \in 1..Len(events) : events[k].srv # r
            /\ \A k \in 1..Len(flips) : flips[k].srv # r

\* the last of several calls was SetOffline on a backup server with maxFails 2,
\* beside a primary
C15_Witness ==
    /\ calls = MaxCalls
    /\ lastCall.op = "SetOffline"
    /\ lastCall.srv.backup
    /\ Deref(lastCall.srv).opts.MaxFails = 2
    /\ Len(primaryGroup.srvList) = 1
    /\ Idle

\* the events delivered for server r, and its transitions, in order
EventsOf(r) == SelectSeq(events, LAMBDA e : e.srv = r)
FlipsOf(r) == SelectSeq(flips, LAMBDA e : e.srv = r)

\* a sequence of events that alternates Down, Up, Down, ...
Alternates(q) ==
    \A k \in 1..Len(q) :
        q[k].type = IF k % 2 = 1 THEN ServerDownEvent ELSE ServerUpEvent

\* C17: the events delivered for one server strictly alternate
\* ServerDownEvent, ServerUpEvent, ... starting with ServerDownEvent, and once
\* all calls have returned the last event delivered agrees with isDown.
C17_EventsInTransitionOrder ==
    \A r \in Refs :
        /\ Alternates(EventsOf(r))
        /\ (Idle /\ EventsOf(r) # << >>) =>
              (EventsOf(r)[Len(EventsOf(r))].type = ServerDownEvent) = Deref(r).isDown

\* the transitions themselves do alternate, each made under the mutex
C17_TransitionsAlternate ==
    \A r \in Refs :
        /\ Alternates(FlipsOf(r))
        /\ (mtx = {} /\ FlipsOf(r) # << >>) =>
              (FlipsOf(r)[Len(FlipsOf(r))].type = ServerDownEvent) = Deref(r).isDown

\* the health state: every server's fields and the online counter
LinState ==
    [primary |-> primaryGroup.srvList, backup |-> backupGroup.srvList,
     count |-> primaryOnlineCount]

\* C18: whenever no call is inside its critical section, and when a call has
\* done its writes and is about to unlock, isDown, failCounter and
\* failTimestamp of every server and primaryOnlineCount equal those of the same
\* calls run one at a time in the order they acquired the mutex, each with the
\* clock reading it took.
C18_Linearizable ==
    ( \/ mtx = {}
      \/ \E t \in Threads : mtx = {t} /\ pc[t] \in {"on_unlock", "off_unlock"} )
    => lin = LinState

\* a SetOffline has just put a server Down again while a SetOnline call on the
\* same server waits for the mutex
C18_Witness ==
    \E t, u \in Threads :
        /\ mtx = {t}
        /\ pc[t] = "off_unlock" /\ notifyDown[t]
        /\ pc[u] = "on_lock" /\ srv[u] = srv[t]
        /\ Len(FlipsOf(srv[t])) >= 3
        /\ lin = LinState

\* the weights of the primaries in the order they were added
Weights == [i \in Primaries |-> P(i).opts.Weight]

RECURSIVE Sum(_)
Sum(q) == IF q = << >> THEN 0 ELSE Head(q) + Sum(Tail(q))

\* the n Next calls from the k-th on, and how often they returned server r
Picks(k, n) == SubSeq(returned, k, k + n - 1)
Times(q, r) == Len(SelectSeq(q, LAMBDA x : x = r))

Heavy == [backup |-> FALSE, idx |-> 1]
Light == [backup |-> FALSE, idx |-> 2]

\* C11, the counts: every run of Next calls as long as the sum of the weights
\* returns each primary as many times as its weight.
C11_CycleProportional ==
    \A k \in 1..Len(returned) :
        k + Sum(Weights) - 1 <= Len(returned) =>
            \A r \in Refs : Times(Picks(k, Sum(Weights)), r) = Deref(r).opts.Weight

\* C11, the order, for a cursor starting at index 0 and weight 0: the first 4
\* calls return the weight-1 server and then the weight-3 server 3 times.
C11_FirstFour ==
    (Weights = << 3, 1 >> /\ Len(returned) >= 4) =>
        Picks(1, 4) = << Light, Heavy, Heavy, Heavy >>

\* two full cycles over primaries of weight 3 and 1
C11_Witness ==
    /\ Weights = << 3, 1 >>
    /\ Len(returned) = 8
    /\ Picks(5, 4) = << Light, Heavy, Heavy, Heavy >>

\* C16: with a handler that calls SetOnline or SetOffline, every call under way
\* eventually returns, every thread waiting for the mutex eventually holds it,
\* and a held mutex is eventually free.
C16_NoDeadlock ==
    /\ \A t \in Threads : (pc[t] # "idle") ~> (pc[t] = "idle" /\ stack[t] = << >>)
    /\ \A t \in Threads : (pc[t] \in {"on_lock", "off_lock"}) ~> (mtx = {t})
    /\ (mtx # {}) ~> (mtx = {})

\* a call made by the handler of a call made by the handler waits for the
\* mutex, which another thread holds
C16_Witness ==
    \E t, u \in Threads :
        /\ Len(stack[t]) = 2
        /\ pc[t] \in {"on_lock", "off_lock"}
        /\ mtx = {u}
        /\ u # t

\* the index arguments tried on SourceState
Indexes == (0 - 2)..(MaxSources + 1)

C19_ListShape ==
    /\ SourcesCount = added.ok
    /\ \A i \in 1..Len(sources) : sources[i].id = i
    /\ \A index \in Indexes :
          (SourceState(index) = Nil) <=> (index < 0 \/ index >= SourcesCount)

\* C19: an AddSource call that fails, on the base URL or on the load
\* balancer's Add, leaves the source list as it was; SourcesCount is the number
\* of successful calls, the source at position i (from 0) has id i + 1, and
\* SourceState(index) is nil exactly when index < 0 or index >= SourcesCount.
C19_FailedAddKeepsSources ==
    /\ []C19_ListShape
    /\ [][(added'.rejected # added.rejected \/ added'.refused # added.refused)
            => sources' = sources]_vars

\* one call added a source with its trailing slash removed, one was rejected
\* for its base URL, one was refused by the load balancer
C19_Witness ==
    /\ added = [ok |-> 1, rejected |-> 1, refused |-> 1]
    /\ SourcesCount = 1
    /\ sources[1].baseURL = << "https://", "b" >>
    /\ SourceState(0) # Nil
    /\ SourceState(1) = Nil

====
